---------------------------- MODULE Spec2Model ----------------------------
(***************************************************************************)
(* A model of the meme pipeline of chatmeme:                               *)
(*   src/groq_handler.py   GroqHandler  (request analyzer, plan maker)     *)
(*   src/image_handler.py  ImageHandler (retriever, compositor, word wrap) *)
(*   src/app.py            the chat turn (gate, generate_meme_response)    *)
(* Python values are modelled as tagged records: a JSON value that may be  *)
(* missing or of the wrong type carries a tag saying so, and an operation  *)
(* that raises inside a try block takes the except branch of the source.   *)
(***************************************************************************)
EXTENDS Integers, Sequences, FiniteSets, TLC

VARIABLES
    pc,                 \* the position of the running function
    llm_response,       \* analyze_meme_request: what the chat completion answered
    grok_vision,        \* analyze_meme_request: the value returned
    image_data,         \* the images of the turn, in insertion order of the dict
    comp_response,      \* process_meme_composition: what the chat completion answered
    composition,        \* process_meme_composition: the value returned
    ddgs,               \* search_images: the search backend (failing calls, then images)
    num_images,         \* search_images: the count asked for
    ddgs_calls,         \* search_images: the calls of ddgs.images made so far
    valid_urls,         \* search_images: the value returned
    words,              \* add_text_overlay: text.split(), each word with its pixel width
    max_width,          \* add_text_overlay: the widest line allowed
    word_idx,           \* add_text_overlay: the next word of the loop of line 251
    current_line,       \* add_text_overlay: the words of the line being filled
    lines,              \* add_text_overlay: the lines emitted so far
    fn,                 \* the compositor function running: create_meme or create_collage
    remove_bg,          \* create_collage: its remove_bg argument
    REMBG_AVAILABLE,    \* whether the import of rembg succeeded (line 15-19)
    cache,              \* the cache directory: per URL the mode of the stored file
    img_idx,            \* the next image of the loop of line 298 (118)
    attempted,          \* the images the loop has tried so far, each with its outcome
    processed_images,   \* processed_images (images): the images kept so far
    canvas,             \* the canvas (collage) once created
    meme_image,         \* the value create_meme (create_collage) returned
    prompt,             \* the chat input of the turn, as its words
    play_it_safe,       \* app.py 178: whether the prompt holds the trigger tag
    response,           \* the response of the turn
    callLog,            \* the calls of the turn so far, in order
    query_idx,          \* app.py 74: the next search query of the loop
    current_meme,       \* st.session_state.current_meme
    cache_format,       \* the cache directory: per URL the format of the stored file
    downloads,          \* per URL the downloads that ended in a stored file
    image_sizes,        \* create_meme: the sizes of processed_images.values()
    cell_idx,           \* create_meme: the next image of the loop of line 354 (376)
    cells,              \* create_meme: the cell of each image placed so far
    boxes               \* create_meme: the box each resized image was pasted into

analyzerVars == <<llm_response, grok_vision>>
plannerVars == <<comp_response, composition>>
retrieverVars == <<ddgs, num_images, ddgs_calls, valid_urls>>
wrapVars == <<words, max_width, word_idx, current_line, lines>>
compositorVars == <<fn, remove_bg, REMBG_AVAILABLE, cache, cache_format, downloads,
                    img_idx, attempted, processed_images, canvas, meme_image>>
layoutVars == <<image_sizes, cell_idx, cells, boxes>>

turnVars == <<prompt, play_it_safe, response, callLog, query_idx, current_meme>>

vars == <<pc, image_data, analyzerVars, plannerVars, retrieverVars, wrapVars,
          compositorVars, turnVars, layoutVars>>

(***************************************************************************)
(* Bounds of the model.                                                    *)
(***************************************************************************)
\* The longest list the analyzer's model output carries.
MaxList == 3
\* The most text_placement entries the planner's model output carries.
MaxText == 2
\* The most candidates the search backend yields, the most failing calls before it
\* answers, and the largest count asked of search_images.
MaxCandidates == 3
MaxFailures == 3
MaxCount == 2
\* The most words of a caption, the widest word and the widest line, in pixels.
MaxWords == 4
MaxWordWidth == 4
MaxLineWidth == 4
\* The most images of one composition.
MaxImages == 2

(***************************************************************************)
(* Python values.                                                          *)
(***************************************************************************)
\* Python's None.
None == [tag |-> "None"]
\* An exception that leaves the function.
Raised == [tag |-> "raise"]
\* The variables of a function that has not been called.
NotCalled == [tag |-> "not_called"]

Min(a, b) == IF a <= b THEN a ELSE b
Max(a, b) == IF a >= b THEN a ELSE b
\* list[:n] for 0 <= n.
Prefix(s, n) == SubSeq(s, 1, Min(n, Len(s)))

\* A JSON member that is missing, is not a list (a number: len() raises), or is a list.
Absent == [tag |-> "absent", items |-> <<>>]
Unsized == [tag |-> "unsized", items |-> <<>>]
List(items) == [tag |-> "list", items |-> items]
\* The list of n strings of one key; the i-th string of a key is <<key, i>>.
Strings(key, n) == [i \in 1..n |-> <<key, i>>]
Member(key) == {Absent, Unsized} \cup {List(Strings(key, n)) : n \in 0..MaxList}

(***************************************************************************)
(* GroqHandler.analyze_meme_request (src/groq_handler.py 102-148).         *)
(***************************************************************************)
\* What the chat completion of the analyzer can answer: the call raises, the text
\* is no JSON, or it is a JSON object whose three members are each missing, of a
\* wrong type, or a list.
AnalyzerResponses ==
    {[kind |-> "api_error", subjects |-> Absent, search_queries |-> Absent, captions |-> Absent],
     [kind |-> "not_json", subjects |-> Absent, search_queries |-> Absent, captions |-> Absent]}
    \cup [kind : {"object"}, subjects : Member("subject"),
          search_queries : Member("query"), captions : Member("caption")]

\* Lines 139-142 with the lengths of subjects and search_queries only.
analyze_untruncated_captions(r) ==
    IF r.kind # "object" THEN None
    ELSE IF \E m \in {r.subjects, r.search_queries, r.captions} : m.tag # "list" THEN None
    ELSE LET min_length == Min(Len(r.subjects.items), Len(r.search_queries.items))
         IN  [tag |-> "dict",
              subjects |-> Prefix(r.subjects.items, min_length),
              search_queries |-> Prefix(r.search_queries.items, min_length),
              captions |-> r.captions.items]

\* The whole function: the try block of lines 123-144, and None from the except
\* branch (146-148) when the call raises, json.loads raises or yields no object, a
\* key is missing (KeyError) or a member has no len() (TypeError). A member that
\* is a string is cut as the list of its characters is.
analyze_meme_request(r) ==
    IF r.kind # "object" THEN None
    ELSE IF \E m \in {r.subjects, r.search_queries, r.captions} : m.tag # "list" THEN None
    ELSE LET min_length == Min(Len(r.subjects.items),
                               Min(Len(r.search_queries.items), Len(r.captions.items)))
         IN  [tag |-> "dict",
              subjects |-> Prefix(r.subjects.items, min_length),
              search_queries |-> Prefix(r.search_queries.items, min_length),
              captions |-> Prefix(r.captions.items, min_length)]

(***************************************************************************)
(* GroqHandler.process_meme_composition (src/groq_handler.py 15-100).      *)
(***************************************************************************)
\* A JSON number member: an integer, a missing key, or a value of another type.
Num(n) == [t |-> "int", v |-> n]
MissingVal == [t |-> "missing", v |-> 0]
BadVal == [t |-> "str", v |-> 0]

\* target_resolution: missing, not an object, or an object with width and height.
AbsentRes == [tag |-> "absent", width |-> MissingVal, height |-> MissingVal]
NotDictRes == [tag |-> "not_dict", width |-> MissingVal, height |-> MissingVal]
Res(w, h) == [tag |-> "dict", width |-> w, height |-> h]

\* One text_placement entry: an object, or a value without .get (AttributeError).
TextObj(text, x, y, mw) ==
    [tag |-> "dict", text |-> text, position |-> [x |-> x, y |-> y], max_width |-> mw]
NotDictEntry ==
    [tag |-> "not_dict", text |-> <<"caption", 0>>, position |-> [x |-> 0, y |-> 0],
     max_width |-> MissingVal]
\* text_placement: missing, null (iterating None raises), or a list.
AbsentText == [tag |-> "absent", items |-> <<>>]
NullText == [tag |-> "null", items |-> <<>>]

Layout(type, spacing) == [tag |-> "dict", type |-> type, spacing |-> spacing]
AbsentLayout == [tag |-> "absent", type |-> "grid", spacing |-> 0]

Plan(ctype, rb, res, text, layout) ==
    [tag |-> "dict", composition_type |-> ctype, remove_background |-> rb,
     target_resolution |-> res, text_placement |-> text, layout |-> layout]
\* An answer that is no JSON object: the call raised, the text is no JSON, or the
\* JSON value is a list, a string or a number.
NoPlan(tag) ==
    [tag |-> tag, composition_type |-> "<absent>", remove_background |-> "<absent>",
     target_resolution |-> AbsentRes, text_placement |-> AbsentText, layout |-> AbsentLayout]

\* One image of image_data (src/app.py 77-81); the key is image_<id>.
ImageInfo(idx, url) ==
    [id |-> idx, url |-> url, caption |-> <<"caption", idx + 1>>,
     subject |-> <<"subject", idx + 1>>]

\* Lines 76-77: max(500, min(700, v)).
ClampResolution(v) == Max(500, Min(700, v))

\* Line 81 with max for min.
ClampMaxWidthSwapped(mw) == Max(400, IF mw.t = "missing" THEN 400 ELSE mw.v)
\* Line 81: min(400, text_obj.get("max_width", 400)).
ClampMaxWidth(mw) == Min(400, IF mw.t = "missing" THEN 400 ELSE mw.v)

\* Lines 88-100: the default composition of the except branch. With no image,
\* list(image_data.values())[0] raises IndexError out of the function.
DefaultComposition(images) ==
    IF images = <<>> THEN Raised
    ELSE Plan("single", "false", Res(Num(600), Num(600)),
              List(<<TextObj(images[1].caption, 300, 550, Num(400))>>),
              Layout("grid", 20))

\* Whether the try block (45-83) raises: the call or json.loads raises, the JSON
\* value is no object, target_resolution is no object or lacks an integer width or
\* height, text_placement is null, or an entry is no object or has a max_width
\* that min() cannot compare.
PlanRaises(r) ==
    \/ r.tag # "dict"
    \/ r.target_resolution.tag = "not_dict"
    \/ /\ r.target_resolution.tag = "dict"
       /\ \/ r.target_resolution.width.t # "int"
          \/ r.target_resolution.height.t # "int"
    \/ r.text_placement.tag = "null"
    \/ \E i \in 1..Len(r.text_placement.items) :
           \/ r.text_placement.items[i].tag # "dict"
           \/ r.text_placement.items[i].max_width.t = "str"

\* The whole function.
process_meme_composition(images, r) ==
    IF PlanRaises(r) THEN DefaultComposition(images)
    ELSE [r EXCEPT
            !.target_resolution =
                IF @.tag = "dict"
                THEN Res(Num(ClampResolution(@.width.v)), Num(ClampResolution(@.height.v)))
                ELSE @,
            !.text_placement.items =
                [i \in 1..Len(@) |-> [@[i] EXCEPT !.max_width = Num(ClampMaxWidth(@))]]]

\* The widths and heights the model asks for, the documented bounds among them.
ResValues == {Num(10), Num(500), Num(600), Num(700), Num(9000), MissingVal, BadVal}
\* The max_width values the model asks for.
WidthValues == {Num(-5), Num(100), Num(400), Num(9999), MissingVal, BadVal}
TextEntries == {NotDictEntry} \cup {TextObj(<<"caption", 1>>, 300, 550, mw) : mw \in WidthValues}
SeqsUpTo(S, n) == UNION {[1..k -> S] : k \in 0..n}
TextPlacements == {AbsentText, NullText} \cup {List(items) : items \in SeqsUpTo(TextEntries, MaxText)}
Resolutions == {AbsentRes, NotDictRes} \cup {Res(w, h) : w \in ResValues, h \in ResValues}

\* What the chat completion of the planner can answer.
PlannerResponses ==
    {NoPlan("api_error"), NoPlan("not_json"), NoPlan("not_object")}
    \cup {Plan("single", "false", res, text, Layout("grid", 20)) :
            res \in Resolutions, text \in TextPlacements}

(***************************************************************************)
(* ImageHandler.search_images (src/image_handler.py 46-72).                *)
(***************************************************************************)
\* A URL: what it starts with, its name, and what it ends with.
Url(start, name, ending) == [start |-> start, name |-> name, ending |-> ending]
\* str.lower() on the endings of the model.
Lower(ending) ==
    CASE ending = ".JPG" -> ".jpg"
      [] ending = ".Png" -> ".png"
      [] OTHER -> ending
\* str.startswith('http') on the starts of the model.
StartsWithHttp(start) == start \in {"http://", "https://", "httpx://"}
\* Lines 60-63: startswith('http') and lower().endswith one of the extensions.
IsValidUrl(u) ==
    /\ StartsWithHttp(u.start)
    /\ Lower(u.ending) \in {".jpg", ".jpeg", ".png"}

\* Lines 58-66: the loop over the candidates from the i-th on, with valid_urls so
\* far; it breaks once num_images are collected.
RECURSIVE FilterFrom(_, _, _, _)
FilterFrom(images, i, n, acc) ==
    IF i > Len(images) THEN acc
    ELSE LET acc2 == IF IsValidUrl(images[i]) THEN Append(acc, images[i]) ELSE acc
         IN  IF Len(acc2) >= n THEN acc2 ELSE FilterFrom(images, i + 1, n, acc2)
\* Lines 58-68: the filter and valid_urls[:num_images].
FilterValid(images, n) == Prefix(FilterFrom(images, 1, n, <<>>), n)

\* The whole function after a backend that raises on its first `failures` calls:
\* the one call of lines 50-55, then the filter, or [] from the except branch
\* (70-72). calls is the number of calls made.
search_images(backend, n) ==
    IF backend.failures >= 1
    THEN [urls |-> <<>>, calls |-> 1]
    ELSE [urls |-> FilterValid(backend.images, n), calls |-> 1]

CandidateUrls ==
    {Url("https://", "a", ".jpg"), Url("http://", "b", ".Png"), Url("https://", "c", ".gif"),
     Url("ftp://", "d", ".jpg"), Url("https://", "e", ".jpeg"), Url("httpx://", "f", ".png")}
Backends == [failures : 0..MaxFailures, images : SeqsUpTo(CandidateUrls, MaxCandidates)]

(***************************************************************************)
(* The word wrap of ImageHandler.add_text_overlay                          *)
(* (src/image_handler.py 245-265).                                         *)
(***************************************************************************)
RECURSIVE SumWidths(_)
SumWidths(ws) == IF ws = <<>> THEN 0 ELSE Head(ws).w + SumWidths(Tail(ws))
\* Lines 253-255: the width of the bounding box of ' '.join(line), a space being
\* one pixel wide.
TextWidth(line) == IF line = <<>> THEN 0 ELSE SumWidths(line) + (Len(line) - 1)

\* Lines 256-262 with the overflowing word left on the emitted line.
WrapWordNoPop(st, word, mw) ==
    LET test_line == Append(st.current_line, word)
    IN  IF TextWidth(test_line) > mw
        THEN IF Len(test_line) = 1
             THEN [lines |-> Append(st.lines, <<word>>), current_line |-> <<>>]
             ELSE [lines |-> Append(st.lines, test_line), current_line |-> <<>>]
        ELSE [lines |-> st.lines, current_line |-> test_line]

\* Lines 252-262: one turn of the loop, from the state st = [lines, current_line].
WrapWord(st, word, mw) ==
    LET test_line == Append(st.current_line, word)
    IN  IF TextWidth(test_line) > mw
        THEN IF Len(test_line) = 1
             THEN [lines |-> Append(st.lines, <<test_line[1]>>), current_line |-> <<>>]
             ELSE [lines |-> Append(st.lines, st.current_line), current_line |-> <<word>>]
        ELSE [lines |-> st.lines, current_line |-> test_line]

\* The captions of the model: up to MaxWords words, the i-th being [id |-> i, w |-> width].
Captions ==
    UNION {{[i \in 1..k |-> [id |-> i, w |-> ws[i]]] : ws \in [1..k -> 1..MaxWordWidth]} :
           k \in 0..MaxWords}

(***************************************************************************)
(* ImageHandler.create_meme and create_collage                             *)
(* (src/image_handler.py 293-406 and 113-224).                             *)
(***************************************************************************)
\* The URLs of the compositions of the model, and the cache with no file.
ImageUrls == {Url("https://", "a", ".jpg"), Url("http://", "b", ".Png")}
EmptyCache == [u \in ImageUrls |-> "none"]

\* Lines 74-90, on the mode of the image: without rembg the image is returned as it
\* is; with it an RGBA image is first converted to RGB, and the result is the
\* extracted RGBA foreground, or the converted image when the removal raises.
remove_background(mode, rembg, removal) ==
    IF ~rembg THEN mode
    ELSE IF removal = "removed" THEN "RGBA"
    ELSE IF mode = "RGBA" THEN "RGB" ELSE mode

\* Lines 299-320 without the test of line 302: every image is downloaded.
FetchImageNoCache(rb, stored, rembg, download, removal) ==
    IF download # "ok" \/ rb = "<absent>"
    THEN [kept |-> FALSE, how |-> "download", mode |-> "none", stored |-> stored]
    ELSE LET mode == IF rb = "true"
                     THEN remove_background("RGBA", rembg, removal)
                     ELSE "RGB"
         IN  [kept |-> TRUE, how |-> "download", mode |-> mode, stored |-> mode]

\* Lines 302-303 with the conversion and the removal of 309-313 applied to the
\* loaded file too.
FetchImageConvertCached(rb, stored, rembg, download, removal) ==
    LET mode == IF rb = "true" THEN remove_background("RGBA", rembg, removal) ELSE "RGB"
    IN  IF stored # "none"
        THEN [kept |-> TRUE, how |-> "cache", mode |-> mode, stored |-> mode]
        ELSE IF download # "ok" \/ rb = "<absent>"
        THEN [kept |-> FALSE, how |-> "download", mode |-> "none", stored |-> "none"]
        ELSE [kept |-> TRUE, how |-> "download", mode |-> mode, stored |-> mode]

\* Lines 299-320 (119-140): the try block of one image. rb is the
\* remove_background of the plan (the remove_bg argument), stored the mode of the
\* cached file or "none", download what the fetch and decode of the URL does.
\* kept says whether the image is appended; stored is the cache entry afterwards.
FetchImage(rb, stored, rembg, download, removal) ==
    IF stored # "none"
    THEN [kept |-> TRUE, how |-> "cache", mode |-> stored, stored |-> stored]
    ELSE IF download # "ok" \/ rb = "<absent>"
    THEN [kept |-> FALSE, how |-> "download", mode |-> "none", stored |-> "none"]
    ELSE LET mode == IF rb = "true"
                     THEN remove_background("RGBA", rembg, removal)
                     ELSE "RGB"
         IN  [kept |-> TRUE, how |-> "download", mode |-> mode, stored |-> mode]

\* Line 315 (135): the format of the file written to the cache path.
SaveFormat(rb) == IF rb = "true" THEN "PNG" ELSE "JPEG"

\* Lines 318-320 with break for continue: a failed image ends the loop.
NextImageBreak(idx, n, kept) == IF kept THEN idx + 1 ELSE n + 1
\* Lines 298 and 318-320 (118 and 138-140): the loop goes on to the next image
\* whether or not this one was kept.
NextImage(idx, n, kept) == idx + 1

\* Image.paste(img, box, mask=img) raises ValueError("bad transparency mask") for
\* a mask without alpha; lines 339-342 pass the mask when backgrounds are removed.
PasteRaises(rb, img) == rb = "true" /\ img.mode = "RGB"
\* The images pasted in order until a paste raises.
RECURSIVE PasteAll(_, _, _)
PasteAll(rb, imgs, done) ==
    IF imgs = <<>> THEN [pasted |-> done, raised |-> FALSE]
    ELSE IF PasteRaises(rb, Head(imgs)) THEN [pasted |-> done, raised |-> TRUE]
    ELSE PasteAll(rb, Tail(imgs), Append(done, Head(imgs).id))

\* The parameters of add_text_overlay (line 226) and the arguments of its calls in
\* create_meme (391-396) and create_collage (171, 213): a keyword argument that is
\* no parameter raises TypeError.
AddTextOverlayParams == {"img", "text", "position"}
CreateMemeOverlayArgs == {"img", "text", "position", "max_width"}
CreateCollageOverlayArgs == {"img", "text", "position"}
CallRaises(args) == ~(args \subseteq AddTextOverlayParams)

NewCanvas(rb, pasted, overlays) ==
    [tag |-> "canvas", mode |-> IF rb = "true" THEN "RGBA" ELSE "RGB",
     pasted |-> pasted, overlays |-> overlays]
Png(c) == [tag |-> "png", mode |-> c.mode, pasted |-> c.pasted, overlays |-> c.overlays]

\* Lines 322-406 of create_meme, after the loop: [canvas, result], the result None
\* when no image was kept (322-323) and when anything raises into the except
\* branch of 404-406.
CreateMemeCompose(imgs, c) ==
    LET rb == c.remove_background
        failed(cv) == [canvas |-> cv, result |-> None]
    IN  IF imgs = <<>> THEN failed(NotCalled)
        \* 326-330: KeyError without target_resolution or remove_background
        ELSE IF c.target_resolution.tag # "dict" \/ rb = "<absent>" THEN failed(NotCalled)
        \* 333: KeyError without composition_type
        ELSE IF c.composition_type = "<absent>" THEN failed(NewCanvas(rb, <<>>, <<>>))
        \* 345-346: KeyError without layout
        ELSE IF c.composition_type # "single" /\ c.layout.tag # "dict"
        THEN failed(NewCanvas(rb, <<>>, <<>>))
        ELSE LET p == IF c.composition_type = "single"
                      THEN PasteAll(rb, <<imgs[1]>>, <<>>)
                      ELSE IF c.layout.type \in {"grid", "vertical", "horizontal"}
                      THEN PasteAll(rb, imgs, <<>>)
                      ELSE [pasted |-> <<>>, raised |-> FALSE]
                 cv == NewCanvas(rb, p.pasted, <<>>)
             IN  IF p.raised THEN failed(cv)
                 \* 390: KeyError without text_placement
                 ELSE IF c.text_placement.tag # "list" THEN failed(cv)
                 \* 391-396: the first call of add_text_overlay
                 ELSE IF c.text_placement.items # <<>> /\ CallRaises(CreateMemeOverlayArgs)
                 THEN failed(cv)
                 ELSE LET drawn == NewCanvas(rb, p.pasted,
                                      [i \in 1..Len(c.text_placement.items) |->
                                          c.text_placement.items[i].text])
                      IN  [canvas |-> drawn, result |-> Png(drawn)]

\* Lines 142-224 of create_collage, after the loop; texts[i] is drawn on the i-th
\* kept image (170-171, 211-214).
RECURSIVE CollagePaste(_, _, _, _, _)
CollagePaste(rb, imgs, texts, i, cv) ==
    IF i > Len(imgs) THEN [canvas |-> cv, result |-> Png(cv)]
    ELSE IF PasteRaises(rb, imgs[i]) THEN [canvas |-> cv, result |-> None]
    ELSE LET pasted == [cv EXCEPT !.pasted = Append(@, imgs[i].id)]
         IN  IF i <= Len(texts) /\ ~CallRaises(CreateCollageOverlayArgs)
             THEN CollagePaste(rb, imgs, texts, i + 1,
                               [pasted EXCEPT !.overlays = Append(@, texts[i])])
             ELSE IF i <= Len(texts) THEN [canvas |-> pasted, result |-> None]
             ELSE CollagePaste(rb, imgs, texts, i + 1, pasted)
CreateCollageCompose(imgs, texts, rbflag) ==
    LET rb == IF rbflag THEN "true" ELSE "false"
    IN  IF imgs = <<>> THEN [canvas |-> NotCalled, result |-> None]
        ELSE CollagePaste(rb, imgs, texts, 1, NewCanvas(rb, <<>>, <<>>))

\* The answers of the planner that the compositions of the model are made from.
GridLayout == Layout("grid", 20)
CompositorResponses ==
    {NoPlan("api_error")}
    \cup {Plan(ct, rb, Res(Num(600), Num(600)), List(<<>>), GridLayout) :
            ct \in {"single", "collage", "<absent>"}, rb \in {"true", "false", "<absent>"}}
    \cup {Plan("collage", rb, Res(Num(9000), Num(10)), List(<<>>), l) :
            rb \in {"true", "false"},
            l \in {Layout("vertical", 10), Layout("horizontal", 0), Layout("other", 20),
                   AbsentLayout}}
    \cup {Plan("single", "false", AbsentRes, List(<<>>), GridLayout),
          Plan("single", "false", Res(Num(600), Num(600)), AbsentText, GridLayout),
          Plan("single", "false", Res(Num(600), Num(600)),
               List(<<TextObj(<<"caption", 1>>, 300, 550, Num(9999))>>), GridLayout)}

\* image_data of up to MaxImages images: the i-th is image_<i-1>.
ImageData ==
    UNION {{[i \in 1..k |-> ImageInfo(i - 1, us[i])] : us \in [1..k -> ImageUrls]} :
           k \in 0..MaxImages}
Captions_of(images) == [i \in 1..Len(images) |-> images[i].caption]

(***************************************************************************)
(* ImageHandler.resize_image and the layouts of create_meme                *)
(* (src/image_handler.py 92-111 and 333-387).                              *)
(***************************************************************************)
\* Lines 32-33.
MAX_SIZE == 700
MIN_SIZE == 300
\* The most images of one layout.
MaxCells == 3

Size(w, h) == [width |-> w, height |-> h]
\* A rectangle of the canvas: its top left corner and its extent.
Box(x, y, w, h) == [x |-> x, y |-> y, width |-> w, height |-> h]

\* Lines 95-111. aspect > 1 exactly when the image is wider than tall; int(v /
\* aspect) is the floor of the quotient of the integers for v >= 0, and for a
\* negative target the negative value is below MIN_SIZE and is replaced.
resize_image(img, target_size) ==
    IF img.width > img.height
    THEN LET new_width == Min(target_size[1], MAX_SIZE)
             new_height == (new_width * img.height) \div img.width
         IN  IF new_height < MIN_SIZE
             THEN Size((MIN_SIZE * img.width) \div img.height, MIN_SIZE)
             ELSE Size(new_width, new_height)
    ELSE LET new_height == Min(target_size[2], MAX_SIZE)
             new_width == (new_height * img.width) \div img.height
         IN  IF new_width < MIN_SIZE
             THEN Size(MIN_SIZE, (MIN_SIZE * img.height) \div img.width)
             ELSE Size(new_width, new_height)

\* Lines 349-350.
GridCols(n) == IF n = 2 THEN 2 ELSE 3
GridRows(n) == (n + GridCols(n) - 1) \div GridCols(n)
\* Lines 351-360: the cell of the image of index idx (from 0) among n.
GridCell(n, idx, target_width, target_height, spacing) ==
    LET cols == GridCols(n)
        rows == GridRows(n)
        cell_width == (target_width - (cols + 1) * spacing) \div cols
        cell_height == (target_height - (rows + 1) * spacing) \div rows
        row == idx \div cols
        col == idx % cols
    IN  Box(spacing + col * (cell_width + spacing), spacing + row * (cell_height + spacing),
            cell_width, cell_height)
\* Lines 367-383: the cell of the image of index idx (from 0) among count.
StripCell(is_vertical, count, idx, target_width, target_height, spacing) ==
    IF is_vertical
    THEN LET cell_width == target_width - 2 * spacing
             cell_height == (target_height - (count + 1) * spacing) \div count
         IN  Box(spacing, spacing + idx * (cell_height + spacing), cell_width, cell_height)
    ELSE LET cell_width == (target_width - (count + 1) * spacing) \div count
             cell_height == target_height - 2 * spacing
         IN  Box(spacing + idx * (cell_width + spacing), spacing, cell_width, cell_height)

\* Lines 333-387: the cell of the image of index idx and the box its resized
\* bitmap is pasted into; the cell of the single layout is the canvas.
PlaceImage(c, sizes, idx) ==
    LET target_width == c.target_resolution.width.v
        target_height == c.target_resolution.height.v
    IN  IF c.composition_type = "single"
        THEN LET img == resize_image(sizes[1], <<target_width, target_height>>)
             IN  [cell |-> Box(0, 0, target_width, target_height),
                  box |-> Box((target_width - img.width) \div 2,
                              (target_height - img.height) \div 2, img.width, img.height)]
        ELSE LET cell == IF c.layout.type = "grid"
                         THEN GridCell(Len(sizes), idx, target_width, target_height,
                                       c.layout.spacing)
                         ELSE StripCell(c.layout.type = "vertical", Len(sizes), idx,
                                        target_width, target_height, c.layout.spacing)
                 img == resize_image(sizes[idx + 1], <<cell.width, cell.height>>)
             IN  [cell |-> cell, box |-> Box(cell.x, cell.y, img.width, img.height)]
\* The images the layout of a plan places: the first alone for the single layout.
PlacedCount(c, sizes) == IF c.composition_type = "single" THEN 1 ELSE Len(sizes)

\* The sizes of the downloaded images, the spacings and the answers of the planner
\* that the layouts of the model are made from.
ImageSizes == {Size(1000, 100), Size(400, 300), Size(300, 300), Size(200, 800)}
SizeLists == UNION {[1..k -> ImageSizes] : k \in 1..MaxCells}
Spacings == {-10, 0, 20, 200}
LayoutResponses ==
    {Plan(ct, "false", Res(w, h), List(<<>>), Layout(type, spacing)) :
        ct \in {"collage"}, w \in {Num(10), Num(601), Num(9000)}, h \in {Num(10), Num(9000)},
        type \in {"grid", "vertical", "horizontal"}, spacing \in Spacings}
    \cup {Plan("single", "false", Res(w, h), List(<<>>), GridLayout) :
            w \in {Num(10), Num(601), Num(9000)}, h \in {Num(10), Num(9000)}}

(***************************************************************************)
(* The chat turn (src/app.py 63-132 and 169-194).                          *)
(***************************************************************************)
\* str.lower() on the words of the model's prompts.
LowerWord(w) ==
    CASE w = "Meme" -> "meme"
      [] w = "#PLAY-IT-SAFE" -> "#play-it-safe"
      [] OTHER -> w
\* needle in prompt.lower(), for a needle that holds no space.
InLowered(needle, p) == \E i \in 1..Len(p) : LowerWord(p[i]) = needle
\* Line 178.
PlayItSafe(p) == InLowered("#play-it-safe", p)

\* Line 181 without the play_it_safe operand.
IsMemeRequestUngated(safe, p) == InLowered("meme", p)
\* Line 181: play_it_safe and "meme" in prompt.lower().
IsMemeRequest(safe, p) == safe /\ InLowered("meme", p)

\* Lines 109-115.
sarcastic_responses ==
    <<"Oh, you want me to do something? How about... no. Try adding #play-it-safe if you're serious.",
      "Sorry, I only speak in memes, and I don't see a #play-it-safe tag. Try again!",
      "Error 404: Cooperation not found. Have you tried using #play-it-safe?",
      "I'm as helpful as a chocolate teapot right now. Use #play-it-safe for actual help.",
      "I'm currently in 'maximum sass' mode. Use #play-it-safe to switch to 'actually helpful' mode.">>
\* Lines 70, 84, 97, 99, 103 and 132.
NotUnderstood == "I couldn't understand the meme request. Try another prompt!"
NoImages == "I couldn't find any suitable images for your meme. Try a different prompt!"
HereIsYourMeme == "Here's your meme! How do you like it?"
ImageTrouble == "I created the meme concept but had trouble with the image processing. Try again!"
MemeError == "Sorry, I encountered an error while creating your meme. Please try again!"
ChatError == "Sorry, I'm having trouble being creative right now. Try again!"
\* Line 129: the text of a chat completion.
ChatText == "completion.choices[0].message.content"

\* A Python str.
Str(text) == [tag |-> "str", text |-> text]
\* What the chat completion of line 120 does: it raises, returns None (line 129
\* raises AttributeError), or returns a completion whose content is empty or a text.
ChatCompletions == {"raise", "none", "empty", "text"}

\* Lines 105-132 without the try of line 118: the exception of the call leaves
\* the function.
generate_response_uncaught(safe, choice, completion) ==
    IF ~safe THEN Str(sarcastic_responses[choice])
    ELSE IF completion \in {"raise", "none"} THEN Raised
    ELSE IF completion = "empty" THEN Str("")
    ELSE Str(ChatText)
\* Lines 105-132: the value generate_response returns; choice is the index
\* random.choice draws.
generate_response(safe, choice, completion) ==
    IF ~safe THEN Str(sarcastic_responses[choice])
    ELSE IF completion \in {"raise", "none"} THEN Str(ChatError)
    ELSE IF completion = "empty" THEN Str("")
    ELSE Str(ChatText)

\* Lines 69 and 95 with every value taken for true.
TruthyAlways(v) == TRUE
\* Python's truth value of what a handler returned: None is false; a dict with
\* keys and a non-empty bytes object are true.
Truthy(v) == v # None

\* Line 83 never taken.
NoImageFoundNever(images) == FALSE
\* Line 83: not image_data.
NoImageFound(images) == images = <<>>

Call(name, arg) == [fn |-> name, arg |-> arg]

\* The prompts, the analyzer answers, the search backends and the planner answers
\* of the turns of the model.
Prompts == {<<"hello">>, <<"Meme">>, <<"#PLAY-IT-SAFE">>, <<"hello", "#play-it-safe">>,
            <<"Meme", "hello">>, <<"Meme", "#PLAY-IT-SAFE">>, <<"#play-it-safe", "Meme">>}
AnalyzerObject(ns, nq, nc) ==
    [kind |-> "object", subjects |-> List(Strings("subject", ns)),
     search_queries |-> List(Strings("query", nq)), captions |-> List(Strings("caption", nc))]
TurnAnalyzerResponses ==
    {[kind |-> "api_error", subjects |-> Absent, search_queries |-> Absent, captions |-> Absent],
     AnalyzerObject(1, 1, 0), AnalyzerObject(1, 1, 1), AnalyzerObject(2, 2, 2),
     AnalyzerObject(2, 1, 2)}
TurnBackends ==
    {[failures |-> 1, images |-> <<Url("https://", "a", ".jpg")>>],
     [failures |-> 0, images |-> <<Url("https://", "c", ".gif"), Url("https://", "a", ".jpg")>>],
     [failures |-> 0, images |-> <<Url("http://", "b", ".Png")>>]}
TurnPlannerResponses ==
    {NoPlan("api_error"),
     Plan("single", "false", Res(Num(9000), Num(10)), List(<<>>), GridLayout),
     Plan("collage", "true", Res(Num(600), Num(600)), List(<<>>), GridLayout)}

(***************************************************************************)
(* Specifications of single functions, each applied to every input of its  *)
(* bounded set.                                                            *)
(***************************************************************************)
AnalyzerIdle == llm_response = NotCalled /\ grok_vision = NotCalled
PlannerIdle == comp_response = NotCalled /\ composition = NotCalled
RetrieverIdle ==
    /\ ddgs = NotCalled
    /\ num_images = 0
    /\ ddgs_calls = 0
    /\ valid_urls = <<>>
CompositorIdle ==
    /\ fn = "none"
    /\ remove_bg = FALSE
    /\ REMBG_AVAILABLE = FALSE
    /\ cache = EmptyCache
    /\ cache_format = EmptyCache
    /\ downloads = [u \in ImageUrls |-> 0]
    /\ img_idx = 0
    /\ attempted = <<>>
    /\ processed_images = <<>>
    /\ canvas = NotCalled
    /\ meme_image = NotCalled
TurnIdle ==
    /\ prompt = <<>>
    /\ play_it_safe = FALSE
    /\ response = ""
    /\ callLog = <<>>
    /\ query_idx = 0
    /\ current_meme = None
WrapIdle ==
    /\ words = <<>>
    /\ max_width = 0
    /\ word_idx = 0
    /\ current_line = <<>>
    /\ lines = <<>>
LayoutIdle ==
    /\ image_sizes = <<>>
    /\ cell_idx = 0
    /\ cells = <<>>
    /\ boxes = <<>>

AnalyzerInit ==
    /\ pc = "analyze_meme_request"
    /\ llm_response \in AnalyzerResponses
    /\ grok_vision = NotCalled
    /\ image_data = <<>>
    /\ PlannerIdle /\ RetrieverIdle /\ WrapIdle /\ CompositorIdle /\ TurnIdle /\ LayoutIdle

AnalyzeMemeRequest ==
    /\ pc = "analyze_meme_request"
    /\ grok_vision' = analyze_meme_request(llm_response)
    /\ pc' = "analyzed"
    /\ UNCHANGED <<llm_response, image_data, plannerVars, retrieverVars, wrapVars, layoutVars,
                   compositorVars, turnVars>>

AnalyzerNext == AnalyzeMemeRequest

AnalyzerSpec == AnalyzerInit /\ [][AnalyzerNext]_vars

PlannerInit ==
    /\ pc = "process_meme_composition"
    /\ image_data \in {<<>>, <<ImageInfo(0, Url("https://", "a", ".jpg"))>>}
    /\ comp_response \in PlannerResponses
    /\ composition = NotCalled
    /\ AnalyzerIdle /\ RetrieverIdle /\ WrapIdle /\ CompositorIdle /\ TurnIdle /\ LayoutIdle

ProcessMemeComposition ==
    /\ pc = "process_meme_composition"
    /\ composition' = process_meme_composition(image_data, comp_response)
    /\ pc' = "planned"
    /\ UNCHANGED <<comp_response, image_data, analyzerVars, retrieverVars, wrapVars, layoutVars,
                   compositorVars, turnVars>>

PlannerNext == ProcessMemeComposition

PlannerSpec == PlannerInit /\ [][PlannerNext]_vars

RetrieverInit ==
    /\ pc = "search_images"
    /\ ddgs \in Backends
    /\ num_images \in 1..MaxCount
    /\ ddgs_calls = 0
    /\ valid_urls = <<>>
    /\ image_data = <<>>
    /\ AnalyzerIdle /\ PlannerIdle /\ WrapIdle /\ CompositorIdle /\ TurnIdle /\ LayoutIdle

SearchImages ==
    /\ pc = "search_images"
    /\ LET r == search_images(ddgs, num_images)
       IN  /\ valid_urls' = r.urls
           /\ ddgs_calls' = ddgs_calls + r.calls
    /\ pc' = "searched"
    /\ UNCHANGED <<ddgs, num_images, image_data, analyzerVars, plannerVars, wrapVars, layoutVars,
                   compositorVars, turnVars>>

RetrieverNext == SearchImages

RetrieverSpec == RetrieverInit /\ [][RetrieverNext]_vars

WrapInit ==
    /\ pc = "wrap"
    /\ words \in Captions
    /\ max_width \in 1..MaxLineWidth
    /\ word_idx = 1
    /\ current_line = <<>>
    /\ lines = <<>>
    /\ image_data = <<>>
    /\ AnalyzerIdle /\ PlannerIdle /\ RetrieverIdle /\ CompositorIdle /\ TurnIdle /\ LayoutIdle

\* Lines 251-262: one word of the loop.
WrapNextWord ==
    /\ pc = "wrap"
    /\ word_idx <= Len(words)
    /\ LET st == WrapWord([lines |-> lines, current_line |-> current_line],
                          words[word_idx], max_width)
       IN  /\ lines' = st.lines
           /\ current_line' = st.current_line
    /\ word_idx' = word_idx + 1
    /\ UNCHANGED <<pc, words, max_width, image_data, analyzerVars, plannerVars, retrieverVars,
                   compositorVars, turnVars, layoutVars>>

\* Lines 264-265: the last line, once the loop has ended.
WrapFlush ==
    /\ pc = "wrap"
    /\ word_idx > Len(words)
    /\ lines' = IF current_line # <<>> THEN Append(lines, current_line) ELSE lines
    /\ pc' = "wrapped"
    /\ UNCHANGED <<words, max_width, word_idx, current_line, image_data,
                   analyzerVars, plannerVars, retrieverVars, compositorVars, turnVars,
                   layoutVars>>

WrapNext == WrapNextWord \/ WrapFlush

WrapSpec == WrapInit /\ [][WrapNext]_vars

(***************************************************************************)
(* The compositor: compositions one after another over one cache.          *)
(***************************************************************************)
\* The arguments of a call of create_meme or create_collage.
CompositorCall ==
    /\ image_data' \in ImageData
    /\ \/ /\ fn' = "create_meme"
          /\ remove_bg' = FALSE
          /\ \E r \in CompositorResponses :
                /\ image_data' # <<>>
                /\ comp_response' = r
                /\ composition' = process_meme_composition(image_data', r)
       \/ /\ fn' = "create_collage"
          /\ remove_bg' \in BOOLEAN
          /\ comp_response' = NotCalled
          /\ composition' = NotCalled
    /\ img_idx' = 1
    /\ attempted' = <<>>
    /\ processed_images' = <<>>
    /\ canvas' = NotCalled
    /\ meme_image' = NotCalled
    /\ pc' = "fetch"

CompositorInit ==
    /\ pc = "compositor"
    /\ image_data = <<>>
    /\ fn = "none"
    /\ remove_bg = FALSE
    /\ REMBG_AVAILABLE \in BOOLEAN
    /\ cache = EmptyCache
    /\ cache_format = EmptyCache
    /\ downloads = [u \in ImageUrls |-> 0]
    /\ img_idx = 0
    /\ attempted = <<>>
    /\ processed_images = <<>>
    /\ canvas = NotCalled
    /\ meme_image = NotCalled
    /\ AnalyzerIdle /\ PlannerIdle /\ RetrieverIdle /\ WrapIdle /\ TurnIdle /\ LayoutIdle

\* A caller invokes create_meme or create_collage.
CallCompositor ==
    /\ pc = "compositor"
    /\ CompositorCall
    /\ UNCHANGED <<REMBG_AVAILABLE, cache, cache_format, downloads, analyzerVars,
                   retrieverVars, wrapVars, layoutVars, turnVars>>

\* The remove_background setting of the running function.
RemoveBackground ==
    IF fn = "create_collage" THEN (IF remove_bg THEN "true" ELSE "false")
    ELSE composition.remove_background

\* Lines 298-320 (118-140): one image of the loop.
FetchOneImage ==
    /\ pc = "fetch"
    /\ img_idx <= Len(image_data)
    /\ \E download \in {"ok", "http_error", "bad_image"}, removal \in {"removed", "failed"} :
         LET info == image_data[img_idx]
             r == FetchImage(RemoveBackground, cache[info.url], REMBG_AVAILABLE,
                             download, removal)
         IN  /\ cache' = [cache EXCEPT ![info.url] = r.stored]
             /\ cache_format' =
                    IF r.how = "download" /\ r.kept
                    THEN [cache_format EXCEPT ![info.url] = SaveFormat(RemoveBackground)]
                    ELSE cache_format
             /\ downloads' =
                    IF r.how = "download" /\ r.kept
                    THEN [downloads EXCEPT ![info.url] = @ + 1]
                    ELSE downloads
             /\ attempted' = Append(attempted,
                    [id |-> info.id, url |-> info.url, how |-> r.how,
                     download |-> IF r.how = "cache" THEN "none" ELSE download,
                     kept |-> r.kept])
             /\ processed_images' =
                    IF r.kept
                    THEN Append(processed_images,
                                [id |-> info.id, url |-> info.url, mode |-> r.mode])
                    ELSE processed_images
             /\ img_idx' = NextImage(img_idx, Len(image_data), r.kept)
    /\ UNCHANGED <<pc, image_data, fn, remove_bg, REMBG_AVAILABLE, canvas, meme_image,
                   analyzerVars, plannerVars, retrieverVars, wrapVars, layoutVars, turnVars>>

\* Lines 322-406 (142-224): the rest of the function, once the loop has ended.
ComposeImages ==
    /\ pc = "fetch"
    /\ img_idx > Len(image_data)
    /\ LET r == IF fn = "create_collage"
                THEN CreateCollageCompose(processed_images, Captions_of(image_data), remove_bg)
                ELSE CreateMemeCompose(processed_images, composition)
       IN  /\ canvas' = r.canvas
           /\ meme_image' = r.result
    /\ pc' = "composed"
    /\ UNCHANGED <<image_data, fn, remove_bg, REMBG_AVAILABLE, cache, cache_format, downloads,
                   img_idx, attempted,
                   processed_images, analyzerVars, plannerVars, retrieverVars, wrapVars, layoutVars,
                   turnVars>>

\* The function has returned to its caller: its locals are gone, the files of the
\* cache directory stay.
CompositorReturn ==
    /\ pc = "composed"
    /\ pc' = "compositor"
    /\ image_data' = <<>>
    /\ fn' = "none"
    /\ remove_bg' = FALSE
    /\ img_idx' = 0
    /\ attempted' = <<>>
    /\ processed_images' = <<>>
    /\ canvas' = NotCalled
    /\ meme_image' = NotCalled
    /\ comp_response' = NotCalled
    /\ composition' = NotCalled
    /\ UNCHANGED <<REMBG_AVAILABLE, cache, cache_format, downloads, analyzerVars,
                   retrieverVars, wrapVars, layoutVars, turnVars>>

CompositorNext == CallCompositor \/ FetchOneImage \/ ComposeImages \/ CompositorReturn

CompositorSpec == CompositorInit /\ [][CompositorNext]_vars

(***************************************************************************)
(* The layout of create_meme, for every plan and every list of images.     *)
(***************************************************************************)
LayoutInit ==
    /\ pc = "layout"
    /\ image_sizes \in SizeLists
    /\ image_data = [i \in 1..Len(image_sizes) |-> ImageInfo(i - 1, Url("https://", "a", ".jpg"))]
    /\ comp_response \in LayoutResponses
    /\ composition = process_meme_composition(image_data, comp_response)
    /\ cell_idx = 0
    /\ cells = <<>>
    /\ boxes = <<>>
    /\ AnalyzerIdle /\ RetrieverIdle /\ WrapIdle /\ CompositorIdle /\ TurnIdle

\* Lines 335-342, 354-364 and 376-387: one image is resized and pasted.
PlaceOneImage ==
    /\ pc = "layout"
    /\ cell_idx < PlacedCount(composition, image_sizes)
    /\ LET r == PlaceImage(composition, image_sizes, cell_idx)
       IN  /\ cells' = Append(cells, r.cell)
           /\ boxes' = Append(boxes, r.box)
    /\ cell_idx' = cell_idx + 1
    /\ UNCHANGED <<pc, image_sizes, image_data, analyzerVars, plannerVars, retrieverVars,
                   wrapVars, compositorVars, turnVars>>

\* Line 389: the layout is done.
LayoutDone ==
    /\ pc = "layout"
    /\ cell_idx >= PlacedCount(composition, image_sizes)
    /\ pc' = "laid_out"
    /\ UNCHANGED <<image_data, analyzerVars, plannerVars, retrieverVars, wrapVars,
                   compositorVars, turnVars, layoutVars>>

LayoutNext == PlaceOneImage \/ LayoutDone

LayoutSpec == LayoutInit /\ [][LayoutNext]_vars

(***************************************************************************)
(* The chat turns of the application, one after another.                   *)
(***************************************************************************)
TurnInit ==
    /\ pc = "chat_input"
    /\ image_data = <<>>
    /\ fn = "none"
    /\ remove_bg = FALSE
    /\ REMBG_AVAILABLE \in BOOLEAN
    /\ cache = EmptyCache
    /\ cache_format = EmptyCache
    /\ downloads = [u \in ImageUrls |-> 0]
    /\ img_idx = 0
    /\ attempted = <<>>
    /\ processed_images = <<>>
    /\ canvas = NotCalled
    /\ meme_image = NotCalled
    /\ AnalyzerIdle /\ PlannerIdle /\ RetrieverIdle /\ WrapIdle /\ TurnIdle /\ LayoutIdle

\* Lines 169-184: a prompt arrives and the turn is routed.
ChatInput ==
    /\ pc = "chat_input"
    /\ \E p \in Prompts :
        /\ prompt' = p
        /\ play_it_safe' = PlayItSafe(p)
        /\ pc' = IF IsMemeRequest(PlayItSafe(p), p)
                 THEN "generate_meme_response"
                 ELSE "generate_response"
    /\ response' = ""
    /\ callLog' = <<>>
    /\ query_idx' = 0
    /\ image_data' = <<>>
    /\ llm_response' = NotCalled /\ grok_vision' = NotCalled
    /\ comp_response' = NotCalled /\ composition' = NotCalled
    /\ fn' = "none" /\ img_idx' = 0 /\ attempted' = <<>> /\ processed_images' = <<>>
    /\ canvas' = NotCalled /\ meme_image' = NotCalled
    /\ UNCHANGED <<current_meme, remove_bg, REMBG_AVAILABLE, cache, cache_format, downloads,
                   retrieverVars, wrapVars, layoutVars>>

\* Lines 184 and 105-132: generate_response is called; an exception that leaves it
\* ends the run of the script.
GenerateResponse ==
    /\ pc = "generate_response"
    /\ \E i \in 1..Len(sarcastic_responses), completion \in ChatCompletions :
         LET r == generate_response(play_it_safe, i, completion)
         IN  /\ response' = IF r.tag = "str" THEN r.text ELSE response
             /\ pc' = IF r.tag = "str" THEN "display" ELSE "crashed"
    /\ callLog' = IF play_it_safe
                  THEN Append(callLog, Call("chat_completion", prompt))
                  ELSE callLog
    /\ UNCHANGED <<prompt, play_it_safe, query_idx, current_meme, image_data, analyzerVars,
                   plannerVars, retrieverVars, wrapVars, layoutVars, compositorVars>>

\* Lines 67-73: the analyzer is called; a false result ends the turn.
TurnAnalyze ==
    /\ pc = "generate_meme_response"
    /\ callLog' = Append(callLog, Call("analyze_meme_request", prompt))
    /\ \E r \in TurnAnalyzerResponses :
        /\ llm_response' = r
        /\ grok_vision' = analyze_meme_request(r)
    /\ IF ~Truthy(grok_vision')
       THEN response' = NotUnderstood /\ pc' = "display" /\ query_idx' = query_idx
       ELSE response' = response /\ pc' = "search" /\ query_idx' = 1
    /\ UNCHANGED <<prompt, play_it_safe, current_meme, image_data, plannerVars, retrieverVars,
                   wrapVars, layoutVars, compositorVars>>

\* Lines 74-81: one search query of the loop.
TurnSearch ==
    /\ pc = "search"
    /\ query_idx <= Len(grok_vision.search_queries)
    /\ callLog' = Append(callLog, Call("search_images", grok_vision.search_queries[query_idx]))
    /\ \E b \in TurnBackends :
         LET results == search_images(b, 1).urls
         IN  image_data' =
                IF results # <<>>
                THEN Append(image_data,
                            [id |-> query_idx - 1, url |-> results[1],
                             caption |-> grok_vision.captions[query_idx],
                             subject |-> grok_vision.subjects[query_idx]])
                ELSE image_data
    /\ query_idx' = query_idx + 1
    /\ UNCHANGED <<pc, prompt, play_it_safe, response, current_meme, analyzerVars, plannerVars,
                   retrieverVars, wrapVars, layoutVars, compositorVars>>

\* Lines 83-93: after the loop, no image ends the turn; otherwise the planner is
\* called and then create_meme, unless the planner raises into line 101.
TurnCompose ==
    /\ pc = "search"
    /\ query_idx > Len(grok_vision.search_queries)
    /\ IF NoImageFound(image_data)
       THEN /\ response' = NoImages
            /\ pc' = "display"
            /\ UNCHANGED <<callLog, plannerVars, compositorVars>>
       ELSE \E r \in TurnPlannerResponses :
            /\ comp_response' = r
            /\ composition' = process_meme_composition(image_data, r)
            /\ IF composition' = Raised
               THEN /\ callLog' = Append(callLog, Call("process_meme_composition", prompt))
                    /\ response' = MemeError
                    /\ pc' = "display"
                    /\ UNCHANGED compositorVars
               ELSE /\ callLog' = callLog \o <<Call("process_meme_composition", prompt),
                                               Call("create_meme", prompt)>>
                    /\ response' = response
                    /\ pc' = "fetch"
                    /\ fn' = "create_meme"
                    /\ img_idx' = 1
                    /\ attempted' = <<>>
                    /\ processed_images' = <<>>
                    /\ canvas' = NotCalled
                    /\ meme_image' = NotCalled
                    /\ UNCHANGED <<remove_bg, REMBG_AVAILABLE, cache, cache_format, downloads>>
    /\ UNCHANGED <<prompt, play_it_safe, query_idx, current_meme, image_data, analyzerVars,
                   retrieverVars, wrapVars, layoutVars>>

\* Lines 95-99: create_meme has returned.
TurnMemeReturned ==
    /\ pc = "composed"
    /\ IF Truthy(meme_image)
       THEN current_meme' = meme_image /\ response' = HereIsYourMeme
       ELSE current_meme' = current_meme /\ response' = ImageTrouble
    /\ pc' = "display"
    /\ UNCHANGED <<prompt, play_it_safe, callLog, query_idx, image_data, analyzerVars,
                   plannerVars, retrieverVars, wrapVars, layoutVars, compositorVars>>

\* Lines 186-191: the response is shown, and the meme with it, which is cleared.
Display ==
    /\ pc = "display"
    /\ current_meme' = None
    /\ pc' = "chat_input"
    /\ UNCHANGED <<prompt, play_it_safe, response, callLog, query_idx, image_data,
                   analyzerVars, plannerVars, retrieverVars, wrapVars, layoutVars, compositorVars>>

TurnNext ==
    \/ ChatInput
    \/ GenerateResponse
    \/ TurnAnalyze
    \/ TurnSearch
    \/ TurnCompose
    \/ FetchOneImage
    \/ ComposeImages
    \/ TurnMemeReturned
    \/ Display

TurnSpec == TurnInit /\ [][TurnNext]_vars

(***************************************************************************)
(* Claims about analyze_meme_request, under AnalyzerSpec.                  *)
(***************************************************************************)
RawLists == <<llm_response.subjects.items, llm_response.search_queries.items,
              llm_response.captions.items>>
ReturnedLists == <<grok_vision.subjects, grok_vision.search_queries, grok_vision.captions>>
AnalyzerReturnedDict == pc = "analyzed" /\ grok_vision.tag = "dict"

\* C1: every accepted model output is returned with three lists of one length, the
\* length of the shortest raw list, each the prefix of that length of its raw list.
C1_EqualLengthPrefixes ==
    AnalyzerReturnedDict =>
        \E n \in 0..(MaxList + 1) :
            /\ \A k \in 1..3 : n <= Len(RawLists[k])
            /\ \E k \in 1..3 : n = Len(RawLists[k])
            /\ \A k \in 1..3 :
                /\ Len(ReturnedLists[k]) = n
                /\ \A i \in 1..n : ReturnedLists[k][i] = RawLists[k][i]

\* C1's case: raw lengths 3/2/3 returned as 2/2/2.
C1_Witness ==
    /\ AnalyzerReturnedDict
    /\ Len(RawLists[1]) = 3 /\ Len(RawLists[2]) = 2 /\ Len(RawLists[3]) = 3
    /\ \A k \in 1..3 : Len(ReturnedLists[k]) = 2

\* C2: a model output that is no JSON, lacks one of the three keys, or has one of
\* the three lists empty is answered with None, so that no returned result holds
\* an empty list.
C2_NoneOnMalformedOrEmpty ==
    pc = "analyzed" =>
        /\ (\/ llm_response.kind # "object"
            \/ \E m \in {llm_response.subjects, llm_response.search_queries,
                         llm_response.captions} :
                   m.tag = "absent" \/ (m.tag = "list" /\ m.items = <<>>))
           => grok_vision = None
        /\ grok_vision.tag = "dict" => \A k \in 1..3 : ReturnedLists[k] # <<>>

(***************************************************************************)
(* Claims about process_meme_composition, under PlannerSpec.               *)
(***************************************************************************)
PlannerReturned == pc = "planned" /\ composition.tag = "dict"

\* C3: every returned plan has a target_resolution whose width and height both lie
\* in 500..700, whatever the model answered.
C3_ResolutionAlwaysClamped ==
    PlannerReturned =>
        /\ composition.target_resolution.tag = "dict"
        /\ composition.target_resolution.width.t = "int"
        /\ composition.target_resolution.height.t = "int"
        /\ composition.target_resolution.width.v \in 500..700
        /\ composition.target_resolution.height.v \in 500..700

\* C4: every text_placement entry of every returned plan has max_width <= 400.
C4_MaxWidthAtMost400 ==
    PlannerReturned =>
        \A i \in 1..Len(composition.text_placement.items) :
            /\ composition.text_placement.items[i].max_width.t = "int"
            /\ composition.text_placement.items[i].max_width.v <= 400

\* C4's case: a plan returned from the try block whose entries asked for 9999 and
\* for no max_width.
C4_Witness ==
    /\ PlannerReturned
    /\ ~PlanRaises(comp_response)
    /\ Len(comp_response.text_placement.items) = 2
    /\ comp_response.text_placement.items[1].max_width = Num(9999)
    /\ comp_response.text_placement.items[2].max_width = MissingVal
    /\ composition.text_placement.items[1].max_width = Num(400)
    /\ composition.text_placement.items[2].max_width = Num(400)

(***************************************************************************)
(* Claims about the chat turn, under TurnSpec.                             *)
(***************************************************************************)
\* The prompt holds the trigger tag, or the keyword, in any case of its letters.
HasTriggerTag == \E i \in 1..Len(prompt) : prompt[i] \in {"#play-it-safe", "#PLAY-IT-SAFE"}
HasMemeKeyword == \E i \in 1..Len(prompt) : prompt[i] \in {"meme", "Meme"}
CallsOf(name) == {i \in 1..Len(callLog) : callLog[i].fn = name}
IsSarcastic(text) == \E i \in 1..Len(sarcastic_responses) : text = sarcastic_responses[i]

\* C5: in a turn whose prompt lacks the trigger tag, with or without the keyword,
\* no handler and no chat completion is ever called, and the response is one of
\* the five sarcastic strings.
C5_NoTagOnlySarcasm ==
    (prompt # <<>> /\ ~HasTriggerTag) =>
        /\ callLog = <<>>
        /\ pc \in {"generate_response", "display", "chat_input"}
        /\ pc \in {"display", "chat_input"} => IsSarcastic(response)
        /\ current_meme = None

\* C5's case: a prompt with the keyword and without the tag has been answered.
C5_Witness ==
    /\ pc = "display"
    /\ HasMemeKeyword /\ ~HasTriggerTag
    /\ IsSarcastic(response)
    /\ callLog = <<>>

AnalyzeCall == <<Call("analyze_meme_request", prompt)>>
SearchCalls ==
    IF grok_vision.tag = "dict"
    THEN [i \in 1..Len(grok_vision.search_queries) |->
            Call("search_images", grok_vision.search_queries[i])]
    ELSE <<>>
ComposeCalls == <<Call("process_meme_composition", prompt), Call("create_meme", prompt)>>
IsPrefix(a, b) == Len(a) <= Len(b) /\ SubSeq(b, 1, Len(a)) = a
MemeTurn == prompt # <<>> /\ HasTriggerTag /\ HasMemeKeyword

\* C6 as stated: every turn with the tag and the keyword ends having called the
\* analyzer once, search_images once per returned query in order, then the planner
\* and create_meme once each, and no chat completion.
C6_FullPipelineEveryTurn ==
    (MemeTurn /\ pc = "display") => callLog = AnalyzeCall \o SearchCalls \o ComposeCalls

\* C6 as amended: the calls of such a turn are, at every moment, the first calls of
\* analyzer, one search per returned query in order, planner, create_meme; the
\* turn ends after the analyzer when it returned None, after the searches when none
\* found an image, and after create_meme otherwise; no chat completion is called.
C6_PipelineInSequence ==
    (MemeTurn /\ pc # "generate_meme_response") =>
        /\ IsPrefix(callLog, AnalyzeCall \o SearchCalls \o ComposeCalls)
        /\ CallsOf("chat_completion") = {}
        /\ Cardinality(CallsOf("analyze_meme_request")) = 1
        /\ pc \in {"display", "chat_input"} =>
            callLog = AnalyzeCall \o SearchCalls
                      \o (IF image_data # <<>> THEN ComposeCalls ELSE <<>>)

\* C6's case: a turn of two queries that ran every stage once and showed a meme.
C6_Witness ==
    /\ MemeTurn /\ pc = "display"
    /\ grok_vision.tag = "dict"
    /\ Len(grok_vision.search_queries) = 2
    /\ Len(image_data) = 2
    /\ callLog = AnalyzeCall \o SearchCalls \o ComposeCalls
    /\ response = HereIsYourMeme

(***************************************************************************)
(* Claims about search_images, under RetrieverSpec.                        *)
(***************************************************************************)
\* C7: a search that fails on its first attempts is tried up to 3 times: after at
\* most two failing attempts the result of the successful one is returned, and the
\* empty sequence of a failure is returned only after 3 failed attempts.
C7_RetriesUpToThree ==
    pc = "searched" =>
        /\ ddgs.failures <= 2 => valid_urls = FilterValid(ddgs.images, num_images)
        /\ ddgs.failures >= 3 => valid_urls = <<>>

\* A URL of the http or the https scheme that ends, in any case of its letters, in
\* .jpg, .jpeg or .png.
HasHttpScheme(u) == u.start \in {"http://", "https://"}
HasImageEnding(u) == u.ending \in {".jpg", ".JPG", ".jpeg", ".png", ".Png"}
IsHttpImageUrl(u) == HasHttpScheme(u) /\ HasImageEnding(u)

\* C13: when the backend yields its candidates, search_images returns the first
\* min(count, number of valid candidates) valid URLs in the backend's order, a URL
\* being valid iff it is of the http or https scheme and has an image ending; the
\* result has at most count entries and no invalid URL.
C13_FirstValidUrlsInOrder ==
    (pc = "searched" /\ ddgs.failures = 0) =>
        /\ valid_urls = Prefix(SelectSeq(ddgs.images, IsHttpImageUrl), num_images)
        /\ Len(valid_urls) <= num_images
        /\ \A i \in 1..Len(valid_urls) : IsHttpImageUrl(valid_urls[i])

(***************************************************************************)
(* Claims about the word wrap of add_text_overlay, under WrapSpec.         *)
(***************************************************************************)
RECURSIVE Flatten(_)
Flatten(ls) == IF ls = <<>> THEN <<>> ELSE Head(ls) \o Flatten(Tail(ls))

\* C10: once the caption is wrapped, no line is wider than the max width if no
\* word is; a word wider than the max width is alone on its line; and the lines,
\* joined in order, are the caption's words in their order.
C10_WordWrap ==
    pc = "wrapped" =>
        /\ (\A i \in 1..Len(words) : words[i].w <= max_width)
               => \A l \in 1..Len(lines) : TextWidth(lines[l]) <= max_width
        /\ \A i \in 1..Len(words) :
               words[i].w > max_width => \E l \in 1..Len(lines) : lines[l] = <<words[i]>>
        /\ \A l \in 1..Len(lines) :
               (\E j \in 1..Len(lines[l]) : lines[l][j].w > max_width) => Len(lines[l]) = 1
        /\ Flatten(lines) = words
        /\ \A l \in 1..Len(lines) : lines[l] # <<>>

\* C10's case: a caption whose wide word stands between narrower ones, wrapped into
\* lines of which one holds two words.
C10_Witness ==
    /\ pc = "wrapped"
    /\ Len(words) = 4
    /\ words[3].w > max_width
    /\ words[1].w < max_width /\ words[2].w < max_width /\ words[4].w <= max_width
    /\ lines = <<<<words[1], words[2]>>, <<words[3]>>, <<words[4]>>>>

(***************************************************************************)
(* Claims about create_meme and create_collage, under CompositorSpec.      *)
(***************************************************************************)
\* C8: create_meme returns an encoded image whenever it kept at least one image,
\* for every plan process_meme_composition returns, the default plan included.
C8_OutputWheneverAnImage ==
    (pc = "composed" /\ fn = "create_meme" /\ processed_images # <<>>) =>
        meme_image.tag = "png"

KeptIds == [i \in 1..Len(processed_images) |-> processed_images[i].id]
RECURSIVE IdsOfKept(_)
IdsOfKept(log) ==
    IF log = <<>> THEN <<>>
    ELSE (IF Head(log).kept THEN <<Head(log).id>> ELSE <<>>) \o IdsOfKept(Tail(log))

\* C9: in both functions an image that cannot be fetched or decoded is skipped and
\* every later image is still tried, in input order; the images kept are the
\* successful ones in input order; with no image kept the function returns None
\* and has created no canvas and drawn no text.
C9_SkipFailedImageOnly ==
    pc \in {"fetch", "composed"} =>
        /\ Len(attempted) = Min(img_idx - 1, Len(image_data))
        /\ \A i \in 1..Len(attempted) :
            /\ i <= Len(image_data) /\ attempted[i].id = image_data[i].id
            /\ attempted[i].url = image_data[i].url
            /\ attempted[i].download \in {"http_error", "bad_image"} => ~attempted[i].kept
            /\ (attempted[i].how = "cache"
                \/ (attempted[i].download = "ok" /\ RemoveBackground # "<absent>"))
               => attempted[i].kept
        /\ KeptIds = IdsOfKept(attempted)
        /\ pc = "composed" =>
            /\ Len(attempted) = Len(image_data)
            /\ processed_images = <<>> => meme_image = None /\ canvas = NotCalled

\* C9's case: the first image failed, the second was fetched and kept, and the
\* function returned an image made of the second alone.
C9_Witness ==
    /\ pc = "composed"
    /\ Len(image_data) = 2
    /\ attempted[1].download = "http_error" /\ ~attempted[1].kept
    /\ attempted[2].download = "ok" /\ attempted[2].kept
    /\ KeptIds = <<image_data[2].id>>
    /\ meme_image.tag = "png"

(***************************************************************************)
(* Claims about the layouts of create_meme and resize_image, under         *)
(* LayoutSpec.                                                             *)
(***************************************************************************)
Canvas ==
    Box(0, 0, composition.target_resolution.width.v, composition.target_resolution.height.v)
Inside(b, outer) ==
    /\ outer.x <= b.x /\ b.x + b.width <= outer.x + outer.width
    /\ outer.y <= b.y /\ b.y + b.height <= outer.y + outer.height
Disjoint(a, b) ==
    \/ a.x + a.width <= b.x \/ b.x + b.width <= a.x
    \/ a.y + a.height <= b.y \/ b.y + b.height <= a.y
LaidOut(types) ==
    /\ pc = "laid_out"
    /\ composition.composition_type # "single"
    /\ composition.layout.type \in types

\* C11: the cells of a grid of three images are three columns of one row, each of
\* positive extent, pairwise non-overlapping and inside the canvas, and they cover
\* the canvas minus the padding: the padding left of, between, right of, above and
\* below the cells is the spacing, for every clamped resolution and every spacing.
C11_GridCellsTileCanvas ==
    (LaidOut({"grid"}) /\ Len(cells) = 3) =>
        LET spacing == composition.layout.spacing
        IN  /\ \A i \in 1..3 : cells[i].width > 0 /\ cells[i].height > 0
            /\ \A i \in 1..3 : Inside(cells[i], Canvas)
            /\ \A i, j \in 1..3 : i # j => Disjoint(cells[i], cells[j])
            /\ \A i \in 1..3 : cells[i].y = cells[1].y
            /\ cells[1].x = spacing /\ cells[1].y = spacing
            /\ \A i \in 1..2 : cells[i + 1].x = cells[i].x + cells[i].width + spacing
            /\ cells[3].x + cells[3].width + spacing = Canvas.width
            /\ cells[1].y + cells[1].height + spacing = Canvas.height

\* C15: in a grid, vertical or horizontal layout every resized image is no wider
\* than min(cell width, MAX_SIZE) and no taller than min(cell height, MAX_SIZE),
\* so that its box lies inside the cell it is pasted into.
C15_ResizedFitsCell ==
    LaidOut({"grid", "vertical", "horizontal"}) =>
        \A i \in 1..Len(boxes) :
            /\ boxes[i].width <= Min(cells[i].width, MAX_SIZE)
            /\ boxes[i].height <= Min(cells[i].height, MAX_SIZE)
            /\ Inside(boxes[i], cells[i])

(***************************************************************************)
(* Further claims about the chat turn, under TurnSpec.                     *)
(***************************************************************************)
\* The strings of the return statements of generate_meme_response and
\* generate_response.
ReturnedTexts ==
    {sarcastic_responses[i] : i \in 1..Len(sarcastic_responses)}
    \cup {NotUnderstood, NoImages, HereIsYourMeme, ImageTrouble, MemeError, ChatError,
          ChatText, ""}

C16_ShortCircuit ==
    (MemeTurn /\ pc # "generate_meme_response") =>
        /\ grok_vision = None =>
            /\ pc \in {"display", "chat_input"}
            /\ response = NotUnderstood
            /\ callLog = AnalyzeCall
        /\ image_data = <<>> =>
            /\ CallsOf("process_meme_composition") = {}
            /\ CallsOf("create_meme") = {}
            /\ composition = NotCalled /\ meme_image = NotCalled
        /\ (grok_vision.tag = "dict" /\ image_data = <<>> /\ pc \in {"display", "chat_input"}) =>
            /\ response = NoImages
            /\ callLog = AnalyzeCall \o SearchCalls
        /\ current_meme # None => (meme_image.tag = "png" /\ current_meme = meme_image)
        /\ response = HereIsYourMeme => meme_image.tag = "png"
        /\ (pc \in {"display", "chat_input"} /\ meme_image = None) => response = ImageTrouble

\* C16's case: two queries were searched, neither found a URL, and the turn ended
\* with the apology of line 84 and no call of the planner or of create_meme.
C16_Witness ==
    /\ MemeTurn /\ pc = "display"
    /\ grok_vision.tag = "dict"
    /\ Len(grok_vision.search_queries) = 2
    /\ image_data = <<>>
    /\ callLog = AnalyzeCall \o SearchCalls
    /\ response = NoImages
    /\ current_meme = None

(***************************************************************************)
(* Claims about the cache of create_meme and create_collage, under         *)
(* CompositorSpec.                                                         *)
(***************************************************************************)
\* A step of the loop over the images, the URL it is about and what it recorded.
FetchStep == pc = "fetch" /\ Len(attempted') = Len(attempted) + 1
FetchedUrl == image_data[img_idx].url
LastAttempt == attempted'[Len(attempted')]
LastKept == processed_images'[Len(processed_images')]

\* C14: a URL with a cache entry is loaded and not downloaded; a URL without one
\* is downloaded, and is kept only after it was stored; a failed download leaves
\* no entry. So, over the compositions, a URL is downloaded into the cache at most
\* once, and it has an entry exactly when it was.
C14_FetchOrCache ==
    /\ [](\A u \in ImageUrls :
            /\ downloads[u] <= 1
            /\ (cache[u] = "none") <=> (downloads[u] = 0)
            /\ (cache[u] = "none") <=> (cache_format[u] = "none"))
    /\ [][FetchStep =>
            IF cache[FetchedUrl] # "none"
            THEN /\ LastAttempt.how = "cache" /\ LastAttempt.kept
                 /\ cache' = cache /\ downloads' = downloads
            ELSE /\ LastAttempt.how = "download"
                 /\ LastAttempt.kept =>
                        /\ cache'[FetchedUrl] = LastKept.mode
                        /\ downloads'[FetchedUrl] = 1
                 /\ ~LastAttempt.kept =>
                        /\ cache'[FetchedUrl] = "none"
                        /\ downloads' = downloads
                 /\ \A u \in ImageUrls \ {FetchedUrl} : cache'[u] = cache[u]]_vars

\* C14's case: a composition of two images, the first loaded from the entry an
\* earlier download left, the second failing to download and left without entry.
C14_Witness ==
    /\ pc \in {"fetch", "composed"}
    /\ Len(attempted) = 2
    /\ attempted[1].how = "cache" /\ downloads[attempted[1].url] = 1
    /\ attempted[2].download = "http_error"
    /\ cache[attempted[2].url] = "none"

\* C17: the entry of a URL is found whatever the remove_background setting of the
\* composition: the stored bitmap is kept in the mode it was stored in, nothing is
\* downloaded, and the file is left as it is, also when the setting differs from
\* the one the file was stored under.
C17_CacheKeyIsUrlAlone ==
    [][(FetchStep /\ cache[FetchedUrl] # "none") =>
            /\ LastAttempt.how = "cache" /\ LastAttempt.kept
            /\ LastKept.url = FetchedUrl
            /\ LastKept.mode = cache[FetchedUrl]
            /\ cache' = cache /\ cache_format' = cache_format /\ downloads' = downloads]_vars

\* C17's case: a file stored as JPEG by a composition without background removal
\* has been loaded, as RGB, by a composition that removes backgrounds.
C17_Witness ==
    /\ pc \in {"fetch", "composed"}
    /\ RemoveBackground = "true"
    /\ Len(attempted) >= 1 /\ Len(processed_images) >= 1
    /\ attempted[1].how = "cache"
    /\ cache_format[attempted[1].url] = "JPEG"
    /\ processed_images[1].url = attempted[1].url
    /\ processed_images[1].mode = "RGB"

=============================================================================
